---- MODULE Spec2Model ----
(***************************************************************************)
(* onnx2tf: the graph walker of convert() (onnx2tf/onnx2tf.py) and the     *)
(* operator handlers ops/And, ops/Clip, ops/GlobalLpPool, ops/AveragePool   *)
(* and ops/Softmax, as a state machine over the IR store tf_layers_dict.    *)
(*                                                                         *)
(* Tensors of the target runtime are modelled by their static shape in     *)
(* channel-last order <<N, spatial..., C>> together with the operator that  *)
(* built them; numeric values are not modelled.                            *)
(***************************************************************************)
EXTENDS Integers, Sequences, FiniteSets, TLC

VARIABLES
    input_onnx_file_path,  \* argument of convert
    onnx_graph,            \* argument of convert: <<>> is None, <<g>> a ModelProto
    file_graph,            \* what onnx.load reads from the one existing file
    graph,                 \* gs.import_onnx(onnx_graph): <<>> before loading
    tf_layers_dict,        \* the IR store, in insertion order
    pc,                    \* position inside convert
    idx,                   \* 1-based position of the loop that is running
    calls,                 \* the make_node invocations so far, in order
    error,                 \* the exception (or exit) that ended convert
    model,                 \* what tf.keras.Model was built from
    artifacts,             \* the output artifacts written so far
    kwargs,                \* the configuration bag handed to make_node
    trials                 \* the axes the Softmax search has evaluated, in order

vars == <<input_onnx_file_path, onnx_graph, file_graph, graph, tf_layers_dict,
          pc, idx, calls, error, model, artifacts, kwargs, trials>>

-----------------------------------------------------------------------------
(* Bounds of the model *)

\* longest operator list of a walked graph
MaxNodes == 2
\* largest spatial extent of a pooled tensor
MaxExtent == 5
\* largest pooling kernel
MaxKernel == 3
\* largest pooling stride
MaxStride == 2
\* largest explicit pad on one side
MaxPad == 2
\* largest rank of a tensor handed to Softmax
MaxRank == 3

-----------------------------------------------------------------------------
(* Arithmetic helpers *)

Max(a, b) == IF a >= b THEN a ELSE b

\* math.floor(a / b) and math.ceil(a / b) for b > 0, a of any sign
FloorDiv(a, b) == a \div b
CeilDiv(a, b) == -((-a) \div b)

RECURSIVE SumSeq(_)
SumSeq(s) == IF s = <<>> THEN 0 ELSE Head(s) + SumSeq(Tail(s))

Zeros(n) == [j \in 1..n |-> 0]
Ones(n) == [j \in 1..n |-> 1]

IsPrefix(s, t) == Len(s) <= Len(t) /\ SubSeq(t, 1, Len(s)) = s

-----------------------------------------------------------------------------
(* The IR store: a Python dict, i.e. name -> entry in insertion order *)

NoError == [kind |-> "none", what |-> ""]
Raise(kind, what) == [kind |-> kind, what |-> what]

\* A runtime tensor: the TF operator that built it, the make_node call that
\* built it (position in calls), its shape, and for a pooling operator how
\* it was lowered.
Tensor(tf_op, by, shape) ==
    [tf_op |-> tf_op, by |-> by, shape |-> shape,
     padding |-> "", pad_mode |-> "", paddings |-> <<>>, fed |-> <<>>,
     axis |-> <<>>, logits |-> ""]

NoTensor == Tensor("", 0, <<>>)

\* An IR entry; has_tf_node says whether the key 'tf_node' is present, nhwc is
\* "absent" when the key 'nhwc' is not in the entry.
Entry(optype, shape) ==
    [optype |-> optype, shape |-> shape, has_tf_node |-> FALSE,
     tf_node |-> NoTensor, nhwc |-> "absent"]

Keys(d) == {d[j].name : j \in 1..Len(d)}
HasKey(d, n) == n \in Keys(d)
Pos(d, n) == CHOOSE j \in 1..Len(d) : d[j].name = n
Get(d, n) == d[Pos(d, n)].info

\* d[n] = e: a new key is appended, an existing key keeps its position
DictSet(d, n, e) ==
    IF HasKey(d, n)
    THEN [d EXCEPT ![Pos(d, n)] = [name |-> n, info |-> e]]
    ELSE Append(d, [name |-> n, info |-> e])

\* d[n]['tf_node'] = t
SetTfNode(d, n, t) ==
    DictSet(d, n, [Get(d, n) EXCEPT !.has_tf_node = TRUE, !.tf_node = t])

\* d[n]['tf_node'] can be read
Readable(d, n) == HasKey(d, n) /\ Get(d, n).has_tf_node

\* the KeyError that reading d[n]['tf_node'] raises when not Readable
ReadError(d, n) ==
    IF HasKey(d, n) THEN Raise("KeyError", "tf_node") ELSE Raise("KeyError", n)

\* what a handler hands back to the walker
Result(d, e) == [dict |-> d, error |-> e]

-----------------------------------------------------------------------------
(* ops/AveragePool.py *)

\* attrs.get('pads', [0] * spatial_size * 2); an absent attribute is <<>>
attr_pads(a) == IF a.pads = <<>> THEN Zeros(2 * Len(a.kernel_shape)) ELSE a.pads

\* in_shape[1:x_rank - 1]: a Python slice, cut at the end of the shape
spatial_slice(shape, x_rank) ==
    IF Len(shape) < 2 THEN <<>>
    ELSE SubSeq(shape, 2, IF x_rank - 1 < Len(shape) THEN x_rank - 1 ELSE Len(shape))

\* utils.common_functions.calc_pads_same_pooling: the per-side pads that "same"
\* mode implies, as [begin_1..begin_n, end_1..end_n]; the odd element goes to
\* the end for SAME_UPPER and to the begin for SAME_LOWER.
calc_pads_same_pooling(in_spatial_shape, kernel_shape, strides, dilations, padding) ==
    LET n == Len(kernel_shape)
        total(j) == Max(0, (CeilDiv(in_spatial_shape[j], strides[j]) - 1) * strides[j]
                            + ((kernel_shape[j] - 1) * dilations[j] + 1)
                            - in_spatial_shape[j])
        begin(j) == IF padding = "SAME_LOWER"
                    THEN CeilDiv(total(j), 2) ELSE FloorDiv(total(j), 2)
    IN  [j \in 1..(2 * n) |-> IF j <= n THEN begin(j) ELSE total(j - n) - begin(j - n)]

\* The value of the local `pads` at line 98: a mode string, or a list
\* (is_list), after NOTSET pads that equal the SAME_UPPER pads were replaced
\* by the mode.
resolve_pads(a, input_tensor_shape) ==
    LET spatial_size == Len(a.kernel_shape)
        x_rank == spatial_size + 2
        lst == attr_pads(a)
    IN  IF a.auto_pad # "NOTSET"
        THEN [is_list |-> FALSE, mode |-> a.auto_pad, list |-> <<>>]
        ELSE IF lst # Zeros(2 * spatial_size)
                /\ lst = calc_pads_same_pooling(spatial_slice(input_tensor_shape, x_rank),
                                                a.kernel_shape, a.strides, a.dilations,
                                                "SAME_UPPER")
             THEN [is_list |-> FALSE, mode |-> "SAME_UPPER", list |-> <<>>]
             ELSE [is_list |-> TRUE, mode |-> "NOTSET", list |-> lst]

\* whether lines 101-114 pad the input through pad_input
uses_pad_input(pads, count_include_pad) ==
    pads.is_list \/ pads.mode = "SAME_LOWER"
        \/ (pads.mode = "SAME_UPPER" /\ count_include_pad = 1)

\* padding_ as selected by lines 101-122
select_padding(pads, count_include_pad) ==
    IF uses_pad_input(pads, count_include_pad) THEN "valid"
    ELSE IF pads.mode = "SAME_UPPER" THEN "same"
    ELSE "same"

\* utils.common_functions.pad_input: the per-side amounts it pads a tensor of
\* known shape with: the explicit list, or the pads of the SAME_* mode. The
\* helper is read as respecting the declared output: with ceil_mode the end
\* pad of an explicit list is extended so that valid pooling (which floors)
\* yields the ceil extent.
pad_input_amounts(in_spatial_shape, a, pads) ==
    LET n == Len(a.kernel_shape)
        base == IF pads.is_list THEN pads.list
                ELSE calc_pads_same_pooling(in_spatial_shape, a.kernel_shape,
                                            a.strides, a.dilations, pads.mode)
        rest(j) == (in_spatial_shape[j] + base[j] + base[j + n]
                    - ((a.kernel_shape[j] - 1) * a.dilations[j] + 1)) % a.strides[j]
        extra(j) == IF pads.is_list /\ a.ceil_mode = 1 /\ rest(j) # 0
                    THEN a.strides[j] - rest(j) ELSE 0
    IN  [j \in 1..(2 * n) |-> IF j <= n THEN base[j] ELSE base[j] + extra(j - n)]

\* The shape of tensor `shape` padded by `amounts` on its spatial axes
padded_shape(shape, amounts) ==
    LET n == Len(amounts) \div 2
    IN  [j \in 1..Len(shape) |->
            IF j >= 2 /\ j <= n + 1 THEN shape[j] + amounts[j - 1] + amounts[j - 1 + n]
            ELSE shape[j]]

\* pad_input applied to a tensor whose rank fits the kernel; a tensor of
\* another rank is handed on unpadded when there is nothing to pad
pad_input(input_tensor_shape, a, pads) ==
    LET n == Len(a.kernel_shape)
        fits == Len(input_tensor_shape) = n + 2
        amounts == IF fits
                   THEN pad_input_amounts(spatial_slice(input_tensor_shape, n + 2), a, pads)
                   ELSE Zeros(2 * n)
    IN  [shape |-> padded_shape(input_tensor_shape, amounts), amounts |-> amounts]

\* lines 130-131: func(output_shape_raw) of spatial axis j (1-based)
output_shape_raw(a, calc_pads, input_tensor_shape, j) ==
    LET spatial_size == Len(a.kernel_shape)
        pad_shape == calc_pads[j] + calc_pads[j + spatial_size]
        num == input_tensor_shape[j + 1] + pad_shape
               - ((a.kernel_shape[j] - 1) * a.dilations[j] + 1)
    IN  IF a.ceil_mode = 0 THEN FloorDiv(num, a.strides[j]) + 1
        ELSE CeilDiv(num, a.strides[j]) + 1

\* line 132: the test that forces "valid" for spatial axis j
workaround_mismatch(a, calc_pads, input_tensor_shape, j) ==
    output_shape_raw(a, calc_pads, input_tensor_shape, j) # input_tensor_shape[j + 1]

\* lines 127-134: padding_ after the workaround loop, or "IndexError" when the
\* loop indexes the input shape past its end before any axis mismatches
workaround_pads(padding_, a, input_tensor_shape) ==
    LET spatial_size == Len(a.kernel_shape)
        calc_pads == attr_pads(a)
        in_range == {j \in 1..spatial_size : j + 1 <= Len(input_tensor_shape)}
    IN  IF \E j \in in_range : workaround_mismatch(a, calc_pads, input_tensor_shape, j)
        THEN "valid"
        ELSE IF in_range # 1..spatial_size THEN "IndexError"
        ELSE padding_

\* a manual pad that is applied in "same" mode instead of "valid" mode
manual_pad_needed_inverted(padding_, calc_pads) ==
    padding_ = "same" /\ SumSeq(calc_pads) > 0

\* line 136: whether the manual tf.pad replaces padded_tensor
manual_pad_needed(padding_, calc_pads) ==
    padding_ = "valid" /\ SumSeq(calc_pads) > 0

\* lines 137-143: tmp_pad without its leading and trailing [0,0]
tmp_pad_spatial(calc_pads, spatial_size) ==
    [j \in 1..spatial_size |-> <<calc_pads[j], calc_pads[j + spatial_size]>>]

\* lines 146-149: the spatial axes (1-based) symmetric_enable_check looks at,
\* enumerate(tmp_pad[1:spatial_size])
symmetric_checked_axes(spatial_size) == 1..(spatial_size - 1)

\* lines 146-153: mode of the manual pad
manual_pad_mode(calc_pads, spatial_size, input_tensor_shape) ==
    IF \A j \in symmetric_checked_axes(spatial_size) :
            /\ calc_pads[j] <= input_tensor_shape[j + 1]
            /\ calc_pads[j + spatial_size] <= input_tensor_shape[j + 1]
    THEN "SYMMETRIC" ELSE "CONSTANT"

\* tf.pad refuses paddings whose rows are not one per axis, and SYMMETRIC
\* paddings larger than the axis
tf_pad_ok(input_tensor_shape, calc_pads, spatial_size, mode) ==
    /\ Len(input_tensor_shape) = spatial_size + 2
    /\ mode = "SYMMETRIC" =>
          \A j \in 1..spatial_size :
              /\ calc_pads[j] <= input_tensor_shape[j + 1]
              /\ calc_pads[j + spatial_size] <= input_tensor_shape[j + 1]

\* AveragePooling{1,2,3}D: kernel and strides only, the dilations are not
\* handed to the layer
keras_pool_ok(fed_shape, a, padding_) ==
    LET n == Len(a.kernel_shape)
    IN  /\ Len(fed_shape) = n + 2
        /\ padding_ = "valid" => \A j \in 1..n : fed_shape[j + 1] >= a.kernel_shape[j]

keras_pool_shape(fed_shape, a, padding_) ==
    LET n == Len(a.kernel_shape)
    IN  [j \in 1..Len(fed_shape) |->
            IF j >= 2 /\ j <= n + 1
            THEN IF padding_ = "valid"
                 THEN FloorDiv(fed_shape[j] - a.kernel_shape[j - 1], a.strides[j - 1]) + 1
                 ELSE CeilDiv(fed_shape[j], a.strides[j - 1])
            ELSE fed_shape[j]]

tf_op_type(n) ==
    IF n = 1 THEN "AveragePooling1D"
    ELSE IF n = 2 THEN "AveragePooling2D" ELSE "AveragePooling3D"

\* make_node of ops/AveragePool.py: the store and the error it leaves
AveragePool_make_node(graph_node, d, by) ==
    LET a == graph_node.attrs
        out == graph_node.out
        in_name == graph_node.inputs[1]
    IN  IF ~Readable(d, in_name) THEN Result(d, ReadError(d, in_name))
        ELSE
        LET input_tensor_shape == Get(d, in_name).tf_node.shape
            spatial_size == Len(a.kernel_shape)
            calc_pads == attr_pads(a)
            pads == resolve_pads(a, input_tensor_shape)
            padded == IF uses_pad_input(pads, a.count_include_pad)
                      THEN pad_input(input_tensor_shape, a, pads)
                      ELSE [shape |-> input_tensor_shape, amounts |-> Zeros(2 * spatial_size)]
            padding_ == workaround_pads(select_padding(pads, a.count_include_pad),
                                        a, input_tensor_shape)
        IN  IF padding_ = "IndexError" THEN Result(d, Raise("IndexError", out))
            ELSE
            LET manual == manual_pad_needed(padding_, calc_pads)
                mode == manual_pad_mode(calc_pads, spatial_size, input_tensor_shape)
            IN  IF manual /\ ~tf_pad_ok(input_tensor_shape, calc_pads, spatial_size, mode)
                THEN Result(d, Raise("InvalidArgumentError", out))
                ELSE
                LET fed == IF manual THEN padded_shape(input_tensor_shape, calc_pads)
                           ELSE padded.shape
                    amounts == IF manual THEN calc_pads ELSE padded.amounts
                    pad_mode == IF manual THEN mode
                                ELSE IF SumSeq(amounts) > 0 THEN "CONSTANT" ELSE "none"
                    d1 == DictSet(d, out, Entry(graph_node.op, graph_node.shape))
                IN  IF spatial_size \notin {1, 2, 3}
                    THEN Result(d1, Raise("AssertionError", out))
                    ELSE IF ~keras_pool_ok(fed, a, padding_)
                    THEN Result(d1, Raise("ValueError", out))
                    ELSE Result(
                        SetTfNode(d1, out,
                            [Tensor(tf_op_type(spatial_size), by,
                                    keras_pool_shape(fed, a, padding_)) EXCEPT
                                !.padding = padding_, !.pad_mode = pad_mode,
                                !.paddings = IF pad_mode = "none" THEN <<>>
                                             ELSE tmp_pad_spatial(amounts, spatial_size),
                                !.fed = fed]),
                        NoError)

-----------------------------------------------------------------------------
(* ops/And.py, ops/Clip.py, ops/GlobalLpPool.py, ops/Softmax.py, ops/Input.py *)

\* make_node of ops/Input.py: one entry of optype "Input" per declared input,
\* holding the placeholder of the declared shape
Input_make_node(name, shape, d, by) ==
    Result(SetTfNode(DictSet(d, name, Entry("Input", shape)), name,
                     Tensor("Input", by, shape)),
           NoError)

\* an And that stores its operator under the name of its first operand
And_make_node_wrong_key(graph_node, d, by) ==
    LET out == graph_node.out
        d1 == DictSet(d, out, Entry(graph_node.op, graph_node.shape))
        x == graph_node.inputs[1]
        y == graph_node.inputs[2]
    IN  IF ~Readable(d1, x) THEN Result(d1, ReadError(d1, x))
        ELSE IF ~Readable(d1, y) THEN Result(d1, ReadError(d1, y))
        ELSE Result(SetTfNode(d1, x,
                        Tensor("logical_and", by, Get(d1, x).tf_node.shape)),
                    NoError)

\* make_node of ops/And.py: the entry is created before the operands are read
And_make_node(graph_node, d, by) ==
    LET out == graph_node.out
        d1 == DictSet(d, out, Entry(graph_node.op, graph_node.shape))
        x == graph_node.inputs[1]
        y == graph_node.inputs[2]
    IN  IF ~Readable(d1, x) THEN Result(d1, ReadError(d1, x))
        ELSE IF ~Readable(d1, y) THEN Result(d1, ReadError(d1, y))
        ELSE Result(SetTfNode(d1, out,
                        Tensor("logical_and", by, Get(d1, x).tf_node.shape)),
                    NoError)

\* make_node of ops/Clip.py; min and max are "absent" (a Variable without
\* shape) or a constant; the operand is read only in the branch that builds
\* an operator
Clip_make_node(graph_node, d, by) ==
    LET out == graph_node.out
        d1 == DictSet(d, out, Entry(graph_node.op, graph_node.shape))
        x == graph_node.inputs[1]
        min_value == graph_node.min
        max_value == graph_node.max
        tf_op == IF min_value = "0.0" /\ max_value = "6.0" THEN "relu6"
                 ELSE IF min_value = "0.0" /\ max_value = "absent" THEN "relu"
                 ELSE IF min_value # "absent" /\ max_value # "absent" THEN "clip_by_value"
                 ELSE IF min_value # "absent" THEN "maximum"
                 ELSE IF max_value # "absent" THEN "minimum"
                 ELSE ""
    IN  IF tf_op = "" THEN Result(d1, NoError)
        ELSE IF ~Readable(d1, x) THEN Result(d1, ReadError(d1, x))
        ELSE Result(SetTfNode(d1, out, Tensor(tf_op, by, Get(d1, x).tf_node.shape)),
                    NoError)

\* make_node of ops/GlobalLpPool.py: tf.norm over dims[1:-1], keepdims
GlobalLpPool_make_node(graph_node, d, by) ==
    LET out == graph_node.out
        x == graph_node.inputs[1]
    IN  IF ~Readable(d, x) THEN Result(d, ReadError(d, x))
        ELSE
        LET shape == Get(d, x).tf_node.shape
            d1 == DictSet(d, out, Entry(graph_node.op, graph_node.shape))
        IN  Result(SetTfNode(d1, out,
                       Tensor("norm", by,
                              [j \in 1..Len(shape) |->
                                  IF j >= 2 /\ j <= Len(shape) - 1 THEN 1 ELSE shape[j]])),
                   NoError)

\* the aggregate error of a trial is counted in units of 1e-4: the tolerance
\* 1e-3 of the early exit, and sys.maxsize, the initial running best
Tolerance == 10
MaxSize == 1000

\* utils.common_functions.convert_axis: the axis of a channel-first tensor as
\* an axis of the channel-last tensor
convert_axis(axis, tensor_rank, before_op_output_shape_trans) ==
    LET a == IF axis < 0 THEN axis + tensor_rank ELSE axis
    IN  IF ~before_op_output_shape_trans \/ tensor_rank < 3 THEN a
        ELSE IF a = 0 THEN 0
        ELSE IF a = 1 THEN tensor_rank - 1
        ELSE a - 1

\* tf.transpose of a tensor of shape `shape`; <<>> is no permutation
transpose_shape(shape, perm) ==
    IF perm = <<>> THEN shape ELSE [j \in 1..Len(shape) |-> shape[perm[j]]]

\* utils.common_functions.pre_process_transpose and post_process_transpose: the
\* permutation the configuration bag asks for, if any
pre_process_transpose(shape, kw) == transpose_shape(shape, kw.pre_perm)
post_process_transpose(shape, kw) == transpose_shape(shape, kw.post_perm)

\* lines 106-109 and 274-277: 'nhwc' is popped when it is True and the shape
\* before the transpose differs from the shape after it
pop_nhwc(nhwc, before_trans_shape, after_trans_shape) ==
    IF nhwc = "True" /\ before_trans_shape # after_trans_shape THEN "absent" ELSE nhwc

\* a search that tries the axes in ascending order
check_axes_ascending(tensor_rank) == [j \in 1..tensor_rank |-> j - 1]

\* line 139: reversed([idx for idx in range(tensor_rank)])
check_axes(tensor_rank) == [j \in 1..tensor_rank |-> tensor_rank - j]

\* lines 144-186: the loop over the candidates left, from the locals st; the
\* outcome of the trial of axis k is outcomes[k + 1]: the aggregate error
\* result_err, or the exception that building or running val_model raises
RECURSIVE search(_, _, _)
search(axes, outcomes, st) ==
    IF axes = <<>> THEN st
    ELSE
    LET check_axis == Head(axes)
        o == outcomes[check_axis + 1]
        st1 == [st EXCEPT !.trials = Append(@, check_axis)]
    IN  IF o.raises # "none"
        THEN [st1 EXCEPT !.raised = o.raises, !.what = "val_model"]
        ELSE IF o.err < st.min_abs_err
        THEN LET st2 == [st1 EXCEPT !.min_abs_err = o.err,
                                    !.min_abs_err_axis = check_axis]
             IN  IF o.err < Tolerance THEN st2
                 ELSE search(Tail(axes), outcomes, st2)
        ELSE search(Tail(axes), outcomes, st1)

\* lines 129-188: the locals the try block leaves; raised is the exception
\* that left the block ("none" when it ran to its end)
oracle(kw, out, axis, tensor_rank) ==
    LET st == [min_abs_err |-> MaxSize, min_abs_err_axis |-> axis, trials |-> <<>>,
               raised |-> "none", what |-> ""]
    IN  IF kw.validation = "absent"
        THEN [st EXCEPT !.raised = "KeyError", !.what = "onnx_tensor_infos_for_validation"]
        ELSE IF kw.validation = "None" THEN st
        ELSE IF kw.validation = "without"
        THEN [st EXCEPT !.raised = "KeyError", !.what = out]
        ELSE search(check_axes(tensor_rank), kw.errs, st)

\* line 187: the exceptions the try block catches
caught(raised) == raised \in {"none", "InvalidArgumentError"}

\* a Softmax built on the structural axis
softmax_axis_structural(axis, min_abs_err_axis) == axis

\* line 226: axis=min_abs_err_axis
softmax_axis(axis, min_abs_err_axis) == min_abs_err_axis

\* lines 194-219: whether the input is rewritten to (x + 1e-7) - 1e-7.
\* graph_node.i() and sub_op.i(tensor_idx) raise IndexError for a tensor
\* without a producing operator, and the except clause passes.
epsilon_workaround(graph_node) ==
    IF graph_node.producer # "Sub" THEN FALSE
    ELSE IF graph_node.sub_operands[1] = "none" THEN FALSE
    ELSE IF graph_node.sub_operands[1] = "ReduceMax" THEN TRUE
    ELSE IF graph_node.sub_operands[2] = "none" THEN FALSE
    ELSE graph_node.sub_operands[2] = "ReduceMax"

\* lines 61-68: the structural axis of the Softmax over a tensor of this rank
Softmax_axis(graph_node, tensor_rank) ==
    convert_axis(IF graph_node.axis = <<>> THEN tensor_rank - 1 ELSE graph_node.axis[1],
                 tensor_rank, TRUE)

\* the locals of the search of one make_node call whose operand can be read
Softmax_search(graph_node, d, kw) ==
    LET tensor_rank == Len(Get(d, graph_node.inputs[1]).tf_node.shape)
    IN  oracle(kw, graph_node.out, Softmax_axis(graph_node, tensor_rank), tensor_rank)

\* the axes one make_node call evaluates, in order
Softmax_trials(graph_node, d, kw) ==
    IF ~Readable(d, graph_node.inputs[1]) THEN <<>>
    ELSE Softmax_search(graph_node, d, kw).trials

\* make_node of ops/Softmax.py
Softmax_make_node(graph_node, d, by, kw) ==
    LET out == graph_node.out
        x == graph_node.inputs[1]
    IN  IF ~Readable(d, x) THEN Result(d, ReadError(d, x))
        ELSE
        LET src == Get(d, x)
            input_shape == src.tf_node.shape
            axis == Softmax_axis(graph_node, Len(input_shape))
            e == [Entry(graph_node.op, graph_node.shape) EXCEPT
                     !.nhwc = IF src.nhwc # "absent" THEN src.nhwc ELSE "False"]
            pre_shape == pre_process_transpose(input_shape, kw)
            d1 == DictSet(d, out, [e EXCEPT !.nhwc = pop_nhwc(@, input_shape, pre_shape)])
            st == Softmax_search(graph_node, d, kw)
        IN  IF ~caught(st.raised) THEN Result(d1, Raise(st.raised, st.what))
            ELSE
            LET post_shape == post_process_transpose(pre_shape, kw)
                t == [Tensor("softmax", by, post_shape) EXCEPT
                         !.axis = <<softmax_axis(axis, st.min_abs_err_axis)>>,
                         !.logits = IF epsilon_workaround(graph_node)
                                    THEN "add_sub" ELSE "input"]
                d2 == SetTfNode(d1, out, t)
                d3 == DictSet(d2, out, [Get(d2, out) EXCEPT
                                           !.nhwc = pop_nhwc(@, pre_shape, post_shape)])
            IN  Result(d3, NoError)

-----------------------------------------------------------------------------
(* The source graphs *)

NoAttrs ==
    [auto_pad |-> "NOTSET", pads |-> <<>>, kernel_shape |-> <<>>, strides |-> <<>>,
     dilations |-> <<>>, ceil_mode |-> 0, count_include_pad |-> 0]

Node(op, inputs, out) ==
    [op |-> op, inputs |-> inputs, out |-> out, shape |-> <<>>, attrs |-> NoAttrs,
     min |-> "absent", max |-> "absent",
     axis |-> <<>>, producer |-> "none", sub_operands |-> <<>>]

PoolAttrs(auto_pad, pads, kernel_shape, strides, ceil_mode, count_include_pad) ==
    [auto_pad |-> auto_pad, pads |-> pads, kernel_shape |-> kernel_shape,
     strides |-> strides, dilations |-> Ones(Len(kernel_shape)),
     ceil_mode |-> ceil_mode, count_include_pad |-> count_include_pad]

\* The output extent of spatial axis j that the source format defines for
\* AveragePool, which is what the graph declares as the shape of the output
declared_extent(a, in_spatial_shape, j) ==
    LET n == Len(a.kernel_shape)
        p == attr_pads(a)
        ek == (a.kernel_shape[j] - 1) * a.dilations[j] + 1
        num == in_spatial_shape[j] + (IF a.auto_pad = "NOTSET" THEN p[j] + p[j + n] ELSE 0) - ek
    IN  IF a.auto_pad \in {"SAME_UPPER", "SAME_LOWER"}
        THEN CeilDiv(in_spatial_shape[j], a.strides[j])
        ELSE IF a.auto_pad = "VALID" \/ a.ceil_mode = 0
        THEN FloorDiv(num, a.strides[j]) + 1
        ELSE CeilDiv(num, a.strides[j]) + 1

declared_shape(a, in_spatial_shape) ==
    [j \in 1..Len(a.kernel_shape) |-> declared_extent(a, in_spatial_shape, j)]

\* the operator types of the walked graphs; "Foo" has no module under ops/
WalkOps == {"And", "Clip", "GlobalLpPool", "AveragePool", "Softmax", "Foo"}

WalkNodes ==
    UNION {
        {Node("And", <<i, "x">>, o),
         [Node("Clip", <<i>>, o) EXCEPT !.min = "0.0", !.max = "6.0"],
         Node("Clip", <<i>>, o),
         Node("GlobalLpPool", <<i>>, o),
         Node("Softmax", <<i>>, o),
         Node("Foo", <<i>>, o),
         [Node("AveragePool", <<i>>, o) EXCEPT
             !.attrs = PoolAttrs("NOTSET", <<>>, <<2>>, <<1>>, 0, 0)]}
        : <<i, o>> \in {"x", "t"} \X {"t", "u"}}
    \cup
        {[Node("AveragePool", <<"y">>, o) EXCEPT
             !.attrs = PoolAttrs("NOTSET", <<>>, <<1, 1, 1, 1>>, <<1, 1, 1, 1>>, 0, 0)]
         : o \in {"t", "u"}}

\* the declared shapes of the graph inputs "x" (one spatial axis) and "y" (four)
ShapeX == <<1, 4, 1>>
ShapeY == <<1, 2, 2, 2, 2, 1>>

WalkInputs == {<< <<"x">>, <<ShapeX>> >>, << <<"x", "y">>, <<ShapeX, ShapeY>> >>}
WalkNodeLists == UNION {[1..n -> WalkNodes] : n \in 0..MaxNodes}
WalkOutputs == {<<"t">>, <<"t", "u">>, <<"u", "t">>}

WalkGraph(ins, ns, outs) ==
    [inputs |-> ins[1], in_shapes |-> ins[2], nodes |-> ns, outputs |-> outs]

\* what the one existing file, model.onnx, may hold
FileGraph1 ==
    [inputs |-> <<"x">>, in_shapes |-> <<ShapeX>>,
     nodes |-> <<Node("Softmax", <<"x">>, "t")>>, outputs |-> <<"t">>]
FileGraph2 ==
    [inputs |-> <<"x", "y">>, in_shapes |-> <<ShapeX, ShapeY>>,
     nodes |-> <<Node("And", <<"x", "x">>, "u"), Node("Foo", <<"u">>, "t")>>,
     outputs |-> <<"t">>]
FileGraphs == {FileGraph1, FileGraph2}

Paths == {"", "missing.onnx", "model.onnx"}

\* os.path.exists
path_exists(path) == path = "model.onnx"

\* The single-operator pooling graphs: 1-D and 2-D, the same extent, kernel
\* and stride on every axis, every combination of pads, auto_pad, ceil_mode
\* and count_include_pad
PoolCases ==
    [n : {1, 2}, extent : 1..MaxExtent, kernel : 1..MaxKernel,
     stride : 1..MaxStride, auto_pad : {"NOTSET", "VALID", "SAME_UPPER", "SAME_LOWER"},
     ceil_mode : {0, 1}, count_include_pad : {0, 1}]

\* the pads attribute goes with auto_pad = NOTSET only
PoolPads(c) == IF c.auto_pad = "NOTSET" THEN [1..(2 * c.n) -> 0..MaxPad] ELSE {<<>>}

PoolSpatial(c) == [j \in 1..c.n |-> c.extent]

PoolCaseAttrs(c, p) ==
    PoolAttrs(c.auto_pad, p, [j \in 1..c.n |-> c.kernel], [j \in 1..c.n |-> c.stride],
              c.ceil_mode, c.count_include_pad)

\* the source format defines an output for the case
PoolCaseValid(c, p) ==
    \A j \in 1..c.n : declared_extent(PoolCaseAttrs(c, p), PoolSpatial(c), j) >= 1

PoolGraph(c, p) ==
    [inputs |-> <<"x">>, in_shapes |-> << <<1>> \o PoolSpatial(c) \o <<1>> >>,
     nodes |-> <<[Node("AveragePool", <<"x">>, "t") EXCEPT
                     !.shape = declared_shape(PoolCaseAttrs(c, p), PoolSpatial(c)),
                     !.attrs = PoolCaseAttrs(c, p)]>>,
     outputs |-> <<"t">>]

-----------------------------------------------------------------------------
(* convert() of onnx2tf/onnx2tf.py *)

\* the operator types with a module under ops/
Registry == {"And", "AveragePool", "Clip", "GlobalLpPool", "Softmax"}

\* a resolution that never fails
import_module_any(optype) == TRUE

\* importlib.import_module(f'ops.{optype}') finds a module
import_module(optype) == optype \in Registry

\* op.make_node of the resolved module
Dispatch(graph_node, d, by, kw) ==
    CASE graph_node.op = "And" -> And_make_node(graph_node, d, by)
      [] graph_node.op = "Clip" -> Clip_make_node(graph_node, d, by)
      [] graph_node.op = "GlobalLpPool" -> GlobalLpPool_make_node(graph_node, d, by)
      [] graph_node.op = "AveragePool" -> AveragePool_make_node(graph_node, d, by)
      [] graph_node.op = "Softmax" -> Softmax_make_node(graph_node, d, by, kw)
      [] OTHER -> Result(d, Raise("AttributeError", graph_node.op))

\* for graph_input in graph.inputs: the item of iteration k
graph_inputs_iter(g, k) == g.inputs[k]

\* a walker that visits the operators last to first
graph_nodes_iter_reversed(g, k) == g.nodes[Len(g.nodes) + 1 - k]

\* for graph_node in graph.nodes: the item of iteration k
graph_nodes_iter(g, k) == g.nodes[k]

\* a loop that swallows the exception of an iteration
after_iteration_swallow(e, k, n, same, next) ==
    IF k < n THEN same ELSE next

\* where convert goes once the loop over `items` has done iteration k: an
\* exception leaves convert, the last iteration leaves the loop
after_iteration(e, k, n, same, next) ==
    IF e.kind # "none" THEN "failed"
    ELSE IF k < n THEN same ELSE next

\* [layer_info['tf_node'] for opname, layer_info in tf_layers_dict.items()
\*  if opname in names]
RECURSIVE collect(_, _)
collect(d, names) ==
    IF d = <<>> THEN <<>>
    ELSE (IF \E k \in 1..Len(names) : names[k] = Head(d).name
          THEN <<Head(d).info.tf_node>> ELSE <<>>) \o collect(Tail(d), names)

\* the comprehension raises KeyError on a matching entry without 'tf_node'
collect_ok(d, names) ==
    \A j \in 1..Len(d) :
        (\E k \in 1..Len(names) : names[k] = d[j].name) => d[j].info.has_tf_node

NoModel == [built |-> FALSE, inputs |-> <<>>, outputs |-> <<>>]

TheGraph == graph[1]

\* lines 84-110
CheckArgs ==
    /\ pc = "boundary"
    /\ IF input_onnx_file_path = "" /\ onnx_graph = <<>>
       THEN /\ pc' = "exit"
            /\ error' = Raise("SystemExit", "One of input_onnx_file_path or onnx_graph must be specified.")
       ELSE IF ~path_exists(input_onnx_file_path)
       THEN /\ pc' = "exit"
            /\ error' = Raise("SystemExit", "The specified *.onnx file does not exist.")
       ELSE /\ pc' = "load"
            /\ error' = error
    /\ UNCHANGED <<input_onnx_file_path, onnx_graph, file_graph, graph, tf_layers_dict,
                   idx, calls, model, artifacts, kwargs, trials>>

\* lines 113-125
LoadGraph ==
    /\ pc = "load"
    /\ onnx_graph' = IF onnx_graph = <<>> THEN <<file_graph>> ELSE onnx_graph
    /\ graph' = onnx_graph'
    /\ tf_layers_dict' = <<>>
    /\ idx' = 1
    /\ pc' = IF graph'[1].inputs # <<>> THEN "inputs"
             ELSE IF graph'[1].nodes # <<>> THEN "nodes" ELSE "assemble"
    /\ UNCHANGED <<input_onnx_file_path, file_graph, calls, error, model, artifacts,
                   kwargs, trials>>

\* lines 130-150, one iteration
InputStep ==
    /\ pc = "inputs"
    /\ LET name == graph_inputs_iter(TheGraph, idx)
           r == Input_make_node(name, TheGraph.in_shapes[idx], tf_layers_dict, Len(calls) + 1)
           n == Len(TheGraph.inputs)
       IN  /\ calls' = Append(calls, [handler |-> "Input", at |-> idx, name |-> name])
           /\ tf_layers_dict' = r.dict
           /\ error' = r.error
           /\ pc' = after_iteration(r.error, idx, n, "inputs",
                                    IF TheGraph.nodes # <<>> THEN "nodes" ELSE "assemble")
           /\ idx' = IF pc' = "inputs" THEN idx + 1 ELSE 1
    /\ UNCHANGED <<input_onnx_file_path, onnx_graph, file_graph, graph, model, artifacts,
                   kwargs, trials>>

\* lines 154-161, one iteration
NodeStep ==
    /\ pc = "nodes"
    /\ LET graph_node == graph_nodes_iter(TheGraph, idx)
           optype == graph_node.op
           n == Len(TheGraph.nodes)
       IN  IF ~import_module(optype)
           THEN /\ error' = Raise("ModuleNotFoundError", optype)
                /\ pc' = "failed"
                /\ UNCHANGED <<tf_layers_dict, calls, idx, trials>>
           ELSE LET r == Dispatch(graph_node, tf_layers_dict, Len(calls) + 1, kwargs)
                IN  /\ calls' = Append(calls, [handler |-> optype, at |-> idx,
                                               name |-> graph_node.out])
                    /\ trials' = IF optype = "Softmax"
                                  THEN Softmax_trials(graph_node, tf_layers_dict, kwargs)
                                  ELSE trials
                    /\ tf_layers_dict' = r.dict
                    /\ error' = r.error
                    /\ pc' = after_iteration(r.error, idx, n, "nodes", "assemble")
                    /\ idx' = IF pc' = "nodes" THEN idx + 1 ELSE idx
    /\ UNCHANGED <<input_onnx_file_path, onnx_graph, file_graph, graph, model, artifacts,
                   kwargs>>

\* lines 163-184
Assemble ==
    /\ pc = "assemble"
    /\ LET input_names == TheGraph.inputs
           output_names == TheGraph.outputs
       IN  IF collect_ok(tf_layers_dict, input_names)
              /\ collect_ok(tf_layers_dict, output_names)
           THEN /\ model' = [built |-> TRUE,
                             inputs |-> collect(tf_layers_dict, input_names),
                             outputs |-> collect(tf_layers_dict, output_names)]
                /\ pc' = "saved_model"
                /\ error' = error
           ELSE /\ model' = model
                /\ pc' = "failed"
                /\ error' = Raise("KeyError", "tf_node")
    /\ UNCHANGED <<input_onnx_file_path, onnx_graph, file_graph, graph, tf_layers_dict,
                   idx, calls, artifacts, kwargs, trials>>

\* lines 186-193
SaveModel ==
    /\ pc = "saved_model"
    /\ artifacts' = artifacts \cup {"saved_model"}
    /\ pc' = "tflite"
    /\ UNCHANGED <<input_onnx_file_path, onnx_graph, file_graph, graph, tf_layers_dict,
                   idx, calls, error, model, kwargs, trials>>

\* lines 195-207
WriteTflite ==
    /\ pc = "tflite"
    /\ artifacts' = artifacts \cup {"model_float32.tflite"}
    /\ pc' = "done"
    /\ UNCHANGED <<input_onnx_file_path, onnx_graph, file_graph, graph, tf_layers_dict,
                   idx, calls, error, model, kwargs, trials>>

Next == CheckArgs \/ LoadGraph \/ InputStep \/ NodeStep \/ Assemble \/ SaveModel
            \/ WriteTflite

Start ==
    /\ graph = <<>>
    /\ tf_layers_dict = <<>>
    /\ pc = "boundary"
    /\ idx = 1
    /\ calls = <<>>
    /\ error = NoError
    /\ model = NoModel
    /\ artifacts = {}
    /\ trials = <<>>

\* lines 119-123: additional_parameters holds no reference set; the decorators
\* of make_node, which are not part of ops/, hand the bag on as it is or with
\* the reference set None
PlainKwargs(v) == [validation |-> v, errs |-> <<>>, pre_perm |-> <<>>, post_perm |-> <<>>]
ConvertKwargs == {PlainKwargs(v) : v \in {"absent", "None"}}

\* any call of convert: any path, with or without an in-memory graph
Init ==
    /\ input_onnx_file_path \in Paths
    /\ kwargs \in ConvertKwargs
    /\ \/ onnx_graph = <<>> /\ file_graph \in FileGraphs
       \/ /\ \E ins \in WalkInputs, ns \in WalkNodeLists, outs \in WalkOutputs :
                onnx_graph = <<WalkGraph(ins, ns, outs)>>
          /\ file_graph = FileGraph1
    /\ Start

Spec == Init /\ [][Next]_vars

\* convert called on a file that holds a single-operator pooling graph
InitPool ==
    /\ input_onnx_file_path = "model.onnx"
    /\ kwargs = PlainKwargs("absent")
    /\ onnx_graph = <<>>
    /\ \E c \in PoolCases : \E p \in PoolPads(c) :
            PoolCaseValid(c, p) /\ file_graph = PoolGraph(c, p)
    /\ Start

SpecPool == InitPool /\ [][Next]_vars

-----------------------------------------------------------------------------
(* make_node of ops/Softmax.py called on its own, with any configuration bag *)

\* the shapes of the operand: every axis after the first of extent 2, or all
\* extents different
SoftmaxShapes ==
    UNION {{[j \in 1..r |-> IF j = 1 THEN 1 ELSE 2], [j \in 1..r |-> j]} : r \in 2..MaxRank}

\* what the trial of one candidate axis can come to: an aggregate error (in
\* units of 1e-4), or an exception of the runtime
Outcomes ==
    {[raises |-> "none", err |-> v] : v \in {0, 5, 20, 30}}
    \cup {[raises |-> k, err |-> 0] : k \in {"InvalidArgumentError", "ResourceExhaustedError"}}

\* the permutation that swaps the last two axes
SwapLast(r) == [j \in 1..r |-> IF j = r - 1 THEN r ELSE IF j = r THEN r - 1 ELSE j]
Perms(r) == {<<>>, SwapLast(r)}

\* the operator that produces the operand of the Softmax and, for a Sub, the
\* operators that produce its two operands ("none": a graph input or constant)
Predecessors ==
    {<<"none", <<>>>>, <<"Relu", <<>>>>}
    \cup {<<"Sub", <<p, q>>>> : p, q \in {"none", "ReduceMax", "Relu"}}

SoftmaxAxes(r) == {<<>>} \cup {<<k>> : k \in 0..(r - 1)}

SoftmaxNode(axis, pred) ==
    [Node("Softmax", <<"x">>, "t") EXCEPT
        !.axis = axis, !.producer = pred[1], !.sub_operands = pred[2]]

\* the store the earlier handlers have left: the entry of the operand
SoftmaxStore(shape, nhwc, pred) ==
    LET optype == IF pred[1] = "none" THEN "Input" ELSE pred[1]
    IN  SetTfNode(DictSet(<<>>, "x", [Entry(optype, shape) EXCEPT !.nhwc = nhwc]),
                  "x", Tensor(optype, 0, shape))

InitSoftmax ==
    /\ input_onnx_file_path = "model.onnx"
    /\ onnx_graph = <<>>
    /\ file_graph = FileGraph1
    /\ \E shape \in SoftmaxShapes :
        \E axis \in SoftmaxAxes(Len(shape)), nhwc \in {"absent", "True", "False"},
           pred \in Predecessors :
            /\ graph = <<[inputs |-> <<"x">>, in_shapes |-> <<shape>>,
                          nodes |-> <<SoftmaxNode(axis, pred)>>, outputs |-> <<"t">>]>>
            /\ tf_layers_dict = SoftmaxStore(shape, nhwc, pred)
            /\ \/ /\ nhwc = "absent"
                  /\ pred[1] = "none"
                  /\ \E errs \in [1..Len(shape) -> Outcomes] :
                        kwargs = [validation |-> "with", errs |-> errs,
                                  pre_perm |-> <<>>, post_perm |-> <<>>]
               \/ \E v \in {"absent", "None", "without"},
                     pre \in Perms(Len(shape)), post \in Perms(Len(shape)) :
                        kwargs = [validation |-> v, errs |-> <<>>,
                                  pre_perm |-> pre, post_perm |-> post]
    /\ pc = "handler"
    /\ idx = 1
    /\ calls = <<>>
    /\ error = NoError
    /\ model = NoModel
    /\ artifacts = {}
    /\ trials = <<>>

\* one call of make_node of ops/Softmax.py
SoftmaxCall ==
    /\ pc = "handler"
    /\ LET graph_node == TheGraph.nodes[1]
           r == Softmax_make_node(graph_node, tf_layers_dict, 1, kwargs)
       IN  /\ calls' = Append(calls, [handler |-> "Softmax", at |-> 1,
                                      name |-> graph_node.out])
           /\ trials' = Softmax_trials(graph_node, tf_layers_dict, kwargs)
           /\ tf_layers_dict' = r.dict
           /\ error' = r.error
           /\ pc' = IF r.error.kind = "none" THEN "returned" ELSE "raised"
    /\ UNCHANGED <<input_onnx_file_path, onnx_graph, file_graph, graph, idx, model,
                   artifacts, kwargs>>

NextSoftmax == SoftmaxCall

SpecSoftmax == InitSoftmax /\ [][NextSoftmax]_vars

-----------------------------------------------------------------------------
(* Properties of the walker *)

Loaded == graph # <<>>

\* the make_node invocations of a complete walk of graph g
ExpectedCalls(g) ==
    [k \in 1..Len(g.inputs) |-> [handler |-> "Input", at |-> k, name |-> g.inputs[k]]]
    \o [k \in 1..Len(g.nodes) |->
            [handler |-> g.nodes[k].op, at |-> k, name |-> g.nodes[k].out]]

\* C1: the handlers are invoked in the order inputs first (declared order),
\* then the operators in graph order, each once and none skipped, and the
\* model is assembled only after the last operator handler has returned.
C1_WalkOrder ==
    /\ ~Loaded => calls = <<>>
    /\ Loaded => IsPrefix(calls, ExpectedCalls(TheGraph))
    /\ (pc \in {"assemble", "saved_model", "tflite", "done"} \/ model.built)
          => calls = ExpectedCalls(TheGraph)

C1_Witness ==
    /\ pc = "done"
    /\ Len(TheGraph.inputs) = 2
    /\ Len(TheGraph.nodes) = 2
    /\ TheGraph.nodes[1] # TheGraph.nodes[2]
    /\ model.built

\* C2: a graph whose operator types all have a handler never raises the
\* unsupported-operator error; the first operator without a handler ends the
\* walk with an error that names its type, and neither its handler nor the
\* handler of any later operator is invoked.
C2_DispatchCompleteness ==
    Loaded =>
        LET ns == TheGraph.nodes
        IN  /\ (\A k \in 1..Len(ns) : ns[k].op \in Registry)
                  => error.kind # "ModuleNotFoundError"
            /\ error.kind = "ModuleNotFoundError"
                  => /\ pc = "failed"
                     /\ ns[idx].op \notin Registry
                     /\ error.what = ns[idx].op
                     /\ \A j \in 1..Len(calls) :
                            calls[j].handler = "Input" \/ calls[j].at < idx
            /\ \A j \in 1..Len(calls) :
                   calls[j].handler # "Input"
                      => \A k \in 1..calls[j].at : ns[k].op \in Registry
            /\ pc \in {"assemble", "saved_model", "tflite", "done"}
                  => \A k \in 1..Len(ns) : ns[k].op \in Registry

C2_Witness ==
    /\ error.kind = "ModuleNotFoundError"
    /\ idx = 2
    /\ Len(calls) = Len(TheGraph.inputs) + 1

\* the tensor names the graph declares (inputs and operator outputs) are
\* pairwise distinct
UniqueNames(g) ==
    LET declared == g.inputs \o [k \in 1..Len(g.nodes) |-> g.nodes[k].out]
    IN  \A j, k \in 1..Len(declared) : declared[j] = declared[k] => j = k

KeyOrder(d) == [j \in 1..Len(d) |-> d[j].name]

\* the name of the tensor the handler invoked by the next step produces
ProducedNext ==
    IF pc = "inputs" THEN TheGraph.inputs[idx]
    ELSE IF pc = "nodes" THEN TheGraph.nodes[idx].out
    ELSE ""

\* C3 as stated: no step of the walk deletes, replaces or mutates an entry
\* that an earlier handler invocation left in the store.
C3_NeverReplaced ==
    [][\A n \in Keys(tf_layers_dict) :
            /\ HasKey(tf_layers_dict', n)
            /\ Get(tf_layers_dict', n) = Get(tf_layers_dict, n)]_vars

\* C3 (amended): no step deletes a key or changes the order of the keys; a
\* handler changes no entry but the one keyed by its own output tensor name;
\* and when the declared tensor names are pairwise distinct no entry left by an
\* earlier handler is replaced or mutated.
C3_Lifecycle ==
    [][Loaded =>
          /\ IsPrefix(KeyOrder(tf_layers_dict), KeyOrder(tf_layers_dict'))
          /\ \A n \in Keys(tf_layers_dict) \ {ProducedNext} :
                 Get(tf_layers_dict', n) = Get(tf_layers_dict, n)
          /\ UniqueNames(TheGraph) =>
                 \A n \in Keys(tf_layers_dict) :
                     Get(tf_layers_dict', n) = Get(tf_layers_dict, n)]_vars

C3_Witness ==
    /\ pc = "done"
    /\ UniqueNames(TheGraph)
    /\ KeyOrder(tf_layers_dict) = <<"x", "y", "t", "u">>
    /\ \E k \in 1..2 : TheGraph.nodes[k].op = "And"

\* the handles of the entries named by `names`, in the order of `names`
handles(d, names) == [k \in 1..Len(names) |-> Get(d, names[k]).tf_node]

\* C4: the model is built from the handles of the declared inputs and of the
\* declared outputs, each list in declared order (stated for graphs all of
\* whose declared inputs and outputs have an entry with a handle).
C4_DeclaredOrder ==
    (model.built
       /\ \A k \in 1..Len(TheGraph.inputs) : Readable(tf_layers_dict, TheGraph.inputs[k])
       /\ \A m \in 1..Len(TheGraph.outputs) : Readable(tf_layers_dict, TheGraph.outputs[m]))
       => /\ model.inputs = handles(tf_layers_dict, TheGraph.inputs)
          /\ model.outputs = handles(tf_layers_dict, TheGraph.outputs)

\* C5: convert exits at the boundary, before any entry is created, only when
\* no in-memory graph is supplied; a supplied onnx_graph is translated
\* whatever input_onnx_file_path is (empty or naming a nonexistent file).
\* (An exit for a nonexistent file without an in-memory graph is the file
\* check of the loader and is not counted against the claim.)
C5_GraphOverridesPath ==
    /\ pc = "exit" => /\ onnx_graph = <<>>
                      /\ tf_layers_dict = <<>>
                      /\ calls = <<>>
    /\ pc = "load" => ~(input_onnx_file_path = "" /\ onnx_graph = <<>>)

\* C6: once a handler invocation (or the resolution of a handler, or the
\* collection of the handles) has raised, convert has ended with that error:
\* no step follows, so no later handler runs, no model is built and no
\* artifact is written.
C6_NoPartialGraph ==
    error.kind \notin {"none", "SystemExit"}
       => /\ pc = "failed"
          /\ ~model.built
          /\ artifacts = {}
          /\ ~ENABLED Next
          /\ \A j \in 1..Len(calls) : calls[j].handler # "Input" => calls[j].at <= idx

C6_Witness ==
    /\ pc = "failed"
    /\ error.kind = "AssertionError"
    /\ idx = 1
    /\ Len(TheGraph.nodes) = 2
    /\ Len(calls) = Len(TheGraph.inputs) + 1

-----------------------------------------------------------------------------
(* Properties of the AveragePool lowering, on single-operator pooling graphs *)

PoolNode == TheGraph.nodes[1]
PoolInput == TheGraph.in_shapes[1]
PoolInSpatial == SubSeq(PoolInput, 2, Len(PoolInput) - 1)

\* the AveragePool handler has returned and left its operator in the store
PoolEmitted ==
    /\ Loaded
    /\ PoolNode.op = "AveragePool"
    /\ pc \in {"assemble", "saved_model", "tflite", "done"}
    /\ Readable(tf_layers_dict, PoolNode.out)

PoolOp == Get(tf_layers_dict, PoolNode.out).tf_node

\* kernel [2,2], stride [2,2], input [4,4], explicit pads [1,1,1,1], declared
\* output [3,3]
C7_Scenario ==
    /\ Loaded
    /\ PoolNode.op = "AveragePool"
    /\ PoolNode.attrs.auto_pad = "NOTSET"
    /\ PoolNode.attrs.pads = <<1, 1, 1, 1>>
    /\ PoolNode.attrs.kernel_shape = <<2, 2>>
    /\ PoolNode.attrs.strides = <<2, 2>>
    /\ PoolInSpatial = <<4, 4>>
    /\ PoolNode.shape = <<3, 3>>

\* C7 as stated: the scenario is translated in "same" mode without a manual
\* pad.
C7_SameNoPad ==
    (C7_Scenario /\ PoolEmitted) => PoolOp.padding = "same" /\ PoolOp.pad_mode = "none"

\* C7 (amended): the scenario is translated in "valid" mode behind a manual
\* SYMMETRIC pad of one element on each side of both spatial axes, which
\* yields the declared output [3,3].
C7_ValidWithPad ==
    (C7_Scenario /\ pc \in {"assemble", "saved_model", "tflite", "done", "failed"})
       => /\ PoolEmitted
          /\ PoolOp.padding = "valid"
          /\ PoolOp.pad_mode = "SYMMETRIC"
          /\ PoolOp.paddings = <<<<1, 1>>, <<1, 1>>>>
          /\ PoolOp.fed = <<1, 6, 6, 1>>
          /\ PoolOp.shape = <<1, 3, 3, 1>>

C7_Witness == C7_Scenario /\ pc = "done" /\ PoolEmitted

\* the explicit pads of the operator are given, not all zero, and equal to the
\* pads "same" mode implies
PadsAreSamePads ==
    /\ PoolNode.attrs.auto_pad = "NOTSET"
    /\ attr_pads(PoolNode.attrs) # Zeros(2 * Len(PoolNode.attrs.kernel_shape))
    /\ attr_pads(PoolNode.attrs) =
          calc_pads_same_pooling(PoolInSpatial, PoolNode.attrs.kernel_shape,
                                 PoolNode.attrs.strides, PoolNode.attrs.dilations,
                                 "SAME_UPPER")

\* C8: with auto_pad NOTSET and count_include_pad = 0, explicit pads equal to
\* the pads of "same" mode are lowered to "same" mode on the unpadded input,
\* without a manual pad, for every stride.
C8_SameDirect ==
    (PoolEmitted /\ PoolNode.attrs.count_include_pad = 0 /\ PadsAreSamePads)
       => /\ PoolOp.padding = "same"
          /\ PoolOp.pad_mode = "none"
          /\ PoolOp.fed = PoolInput

\* the output extent recomputed from the explicit pads disagrees with the
\* declared output shape on some spatial axis
DisagreesWithDeclared ==
    \E j \in 1..Len(PoolNode.attrs.kernel_shape) :
        output_shape_raw(PoolNode.attrs, attr_pads(PoolNode.attrs), PoolInput, j)
            # PoolNode.shape[j]

\* the mode selected before the verification
SelectedMode ==
    select_padding(resolve_pads(PoolNode.attrs, PoolInput), PoolNode.attrs.count_include_pad)

\* C9: the final mode is "valid" exactly when the recomputed output extent
\* disagrees with the declared output shape on some axis or "valid" had already
\* been selected, and a "valid" operator with non-zero explicit pads is fed
\* the input padded by those amounts.
C9_Verification ==
    PoolEmitted
       => /\ PoolOp.padding = "valid" <=> (DisagreesWithDeclared \/ SelectedMode = "valid")
          /\ (PoolOp.padding = "valid" /\ SumSeq(attr_pads(PoolNode.attrs)) > 0)
                => PoolOp.fed = padded_shape(PoolInput, attr_pads(PoolNode.attrs))

\* C10: an operator lowered in "valid" mode produces a tensor whose spatial
\* shape is the declared output shape.
C10_RoundTrip ==
    (PoolEmitted /\ PoolOp.padding = "valid")
       => SubSeq(PoolOp.shape, 2, Len(PoolOp.shape) - 1) = PoolNode.shape

\* line 136 applies: the operator is lowered behind a manual pad
ManualPad ==
    manual_pad_needed(workaround_pads(SelectedMode, PoolNode.attrs, PoolInput),
                      attr_pads(PoolNode.attrs))

\* on every spatial axis the begin and the end pad do not exceed the extent
PadWithinExtent ==
    LET n == Len(PoolNode.attrs.kernel_shape)
        calc_pads == attr_pads(PoolNode.attrs)
    IN  \A j \in 1..n : /\ calc_pads[j] <= PoolInSpatial[j]
                        /\ calc_pads[j + n] <= PoolInSpatial[j]

\* C11: a manual pad is SYMMETRIC only if the begin and the end pad of every
\* spatial axis (the last one and the single axis of 1-D pooling included) do
\* not exceed the extent of the axis; when a pad exceeds the extent on any
\* spatial axis the operator is lowered behind a CONSTANT pad.
C11_AllOrNothing ==
    (Loaded /\ PoolNode.op = "AveragePool" /\ ManualPad
        /\ pc \in {"assemble", "saved_model", "tflite", "done", "failed"})
       => /\ (PoolEmitted /\ PoolOp.pad_mode = "SYMMETRIC") => PadWithinExtent
          /\ ~PadWithinExtent => (PoolEmitted /\ PoolOp.pad_mode = "CONSTANT")

-----------------------------------------------------------------------------
(* Properties of the Softmax handler, called on its own *)

SoftmaxRan == pc \in {"returned", "raised"}
SoftmaxReturned == pc = "returned"
SoftmaxGraphNode == TheGraph.nodes[1]
SoftmaxInput == Get(tf_layers_dict, "x")
SoftmaxRank == Len(SoftmaxInput.tf_node.shape)
SoftmaxOutput == Get(tf_layers_dict, "t")
SoftmaxOp == SoftmaxOutput.tf_node

\* the axis the Softmax of the main graph is built on
BuiltAxis == SoftmaxOp.axis[1]

\* the structural default axis
StructuralAxis == Softmax_axis(SoftmaxGraphNode, SoftmaxRank)

\* the trial order: rank-1, rank-2, ..., 0
TrialOrder == [j \in 1..SoftmaxRank |-> SoftmaxRank - j]

\* the outcome of the trial of axis k
Trial(k) == kwargs.errs[k + 1]

\* the trial of axis k gives an aggregate error below the tolerance
MeetsTolerance(k) == Trial(k).raises = "none" /\ Trial(k).err < Tolerance

\* C12: the candidates are evaluated one at a time in the order rank-1,
\* rank-2, ..., 0, at most rank of them; the trial of a candidate whose
\* aggregate error is below 1e-3 is the last trial; and the axis kept is a
\* candidate of lowest aggregate error among those evaluated.
C12_TrialOrder ==
    /\ pc = "handler" => trials = <<>>
    /\ (SoftmaxRan /\ kwargs.validation = "with")
          => /\ IsPrefix(trials, TrialOrder)
             /\ \A j \in 1..Len(trials) : MeetsTolerance(trials[j]) => j = Len(trials)
             /\ SoftmaxReturned =>
                   \A j \in 1..Len(trials) :
                       Trial(trials[j]).raises = "none"
                          => /\ BuiltAxis \in {trials[m] : m \in 1..Len(trials)}
                             /\ Trial(BuiltAxis).raises = "none"
                             /\ Trial(BuiltAxis).err <= Trial(trials[j]).err

C12_Witness ==
    /\ SoftmaxReturned
    /\ kwargs.validation = "with"
    /\ SoftmaxRank = 3
    /\ Trial(2) = [raises |-> "none", err |-> 20]
    /\ Trial(1) = [raises |-> "none", err |-> 5]
    /\ trials = <<2, 1>>
    /\ BuiltAxis = 1

\* candidate k reproduces the reference exactly and every other candidate is
\* evaluated with a non-zero aggregate error
ExactCandidate(k) ==
    /\ Trial(k) = [raises |-> "none", err |-> 0]
    /\ \A j \in 0..(SoftmaxRank - 1) :
           j # k => (Trial(j).raises = "none" /\ Trial(j).err > 0)

\* C13 as stated: the Softmax is built on the candidate that reproduces the
\* reference exactly, wherever it stands in the trial order and whatever the
\* non-zero errors of the other candidates are.
C13_ExactSelected ==
    (SoftmaxRan /\ kwargs.validation = "with")
       => \A k \in 0..(SoftmaxRank - 1) :
              ExactCandidate(k) => (SoftmaxReturned /\ BuiltAxis = k)

\* C13 (amended): the Softmax is built on the candidate that reproduces the
\* reference exactly when every candidate before it in trial order has an
\* aggregate error of at least 1e-3; otherwise it is built on the first
\* candidate in trial order whose error is below 1e-3.
C13_ExactSelectedIfReached ==
    (SoftmaxRan /\ kwargs.validation = "with")
       => \A k \in 0..(SoftmaxRank - 1) :
              ExactCandidate(k)
                 => /\ SoftmaxReturned
                    /\ (\A j \in (k + 1)..(SoftmaxRank - 1) : ~MeetsTolerance(j))
                          => BuiltAxis = k
                    /\ \A j \in (k + 1)..(SoftmaxRank - 1) :
                          (MeetsTolerance(j)
                             /\ \A m \in (j + 1)..(SoftmaxRank - 1) : ~MeetsTolerance(m))
                             => BuiltAxis = j

C13_Witness ==
    /\ SoftmaxReturned
    /\ kwargs.validation = "with"
    /\ SoftmaxRank = 3
    /\ ExactCandidate(0)
    /\ Trial(2).err = 20
    /\ Trial(1).err = 30
    /\ StructuralAxis = 1
    /\ BuiltAxis = 0

\* C14: without a reference tensor for the output (no reference set in the
\* bag, the reference set None, or the output name not in the set) the search
\* is skipped, nothing is raised and the Softmax is built on the structural
\* default axis.
C14_AbsenceSkips ==
    (SoftmaxRan /\ kwargs.validation # "with")
       => /\ error = NoError
          /\ trials = <<>>
          /\ Readable(tf_layers_dict, "t")
          /\ BuiltAxis = StructuralAxis

\* C15: an exception of one candidate's trial is not raised out of the
\* handler; every candidate is evaluated unless a candidate before it in
\* trial order met the tolerance; and a candidate whose trial raised is not
\* selected over one that was evaluated.
C15_TrialFailure ==
    (SoftmaxRan /\ kwargs.validation = "with")
       => /\ error = NoError
          /\ \A k \in 0..(SoftmaxRank - 1) :
                 (\A j \in (k + 1)..(SoftmaxRank - 1) : ~MeetsTolerance(j))
                    => \E m \in 1..Len(trials) : trials[m] = k
          /\ (SoftmaxReturned /\ \E k \in 0..(SoftmaxRank - 1) : Trial(k).raises = "none")
                => Trial(BuiltAxis).raises = "none"

\* C16: the output entry carries nhwc = True only if the entry of the input
\* carried it and neither transpose permuted the axes.
C16_LayoutFlag ==
    (SoftmaxReturned /\ SoftmaxOutput.nhwc = "True")
       => /\ SoftmaxInput.nhwc = "True"
          /\ kwargs.pre_perm = <<>>
          /\ kwargs.post_perm = <<>>

\* the operand is produced by a Sub one of whose operands is produced by a
\* ReduceMax
SubOfReduceMax ==
    /\ SoftmaxGraphNode.producer = "Sub"
    /\ \E j \in 1..2 : SoftmaxGraphNode.sub_operands[j] = "ReduceMax"

\* C17: the operand is rewritten to (x + 1e-7) - 1e-7 exactly when it is
\* produced by a Sub one of whose operands is produced by a ReduceMax, whatever
\* produces the other operand; the rule raises nothing.
C17_EpsilonPattern ==
    /\ (SoftmaxRan /\ kwargs.validation = "None") => SoftmaxReturned
    /\ SoftmaxReturned => (SoftmaxOp.logits = "add_sub" <=> SubOfReduceMax)

-----------------------------------------------------------------------------
(* Properties of the store *)

\* C18: while no handler has raised, every entry of the store holds a
\* 'tf_node', so no later read of an entry and no collection of the handles
\* finds an entry without one.
C18_HandleAfterReturn ==
    /\ error = NoError =>
          \A j \in 1..Len(tf_layers_dict) : tf_layers_dict[j].info.has_tf_node
    /\ ~(error.kind = "KeyError" /\ error.what = "tf_node")

====
